---------------------------- MODULE Spec2Model ----------------------------
(***************************************************************************)
(* Model of maindl.js (YoutubeTo1MinClips): the highlight scorer           *)
(* getBestMoments, the effect generator generateUniqueEffects, and the     *)
(* interactive main run (build ranges, render loop, cleanup).              *)
(*                                                                         *)
(* Times are fixed-point: one unit ("tick") is 1/Res second, so that the   *)
(* fractional durations ffmpeg reports and the fractional scene-cut times  *)
(* are distinct from whole seconds and Math.ceil / Math.floor / Math.round *)
(* are not the identity.  Indices of the per-second arrays are seconds.    *)
(***************************************************************************)
EXTENDS Integers, Sequences, FiniteSets

(* ------------------------------- bounds -------------------------------- *)
Res == 2
MaxDuration == 8
MaxSpan == 3
MaxHighlights == 3
MaxMentions == 2
MaxCuts == 2
MaxTime == 3
MaxRanges == 2
MaxSegment == 2
MaxWindows == 6
MaxPeakDuration == 14
MaxPeakSpan == 12
MaxCaptions == 2
MaxGroupWindows == 3
RandDen == 1000000

(* -------------------------- program constants -------------------------- *)
DefaultSegmentLength == 61
DefaultHighlightCount == 5
OneMinute == 60
timestampWeightRadius == 5
sceneRadius == 2
TimestampWeight == 3
CutWeight == 1
Scale == 10000

(* ------------------------------ arithmetic ----------------------------- *)
Sec(n) == n * Res
MathCeil(x) == (x + Res - 1) \div Res
MathFloor(x) == x \div Res
MathRound(x) == (2 * x + Res) \div (2 * Res)
Min(a, b) == IF a <= b THEN a ELSE b
Max(a, b) == IF a >= b THEN a ELSE b

Front(s) == SubSeq(s, 1, Len(s) - 1)
Last(s) == s[Len(s)]

(* --------------------------- getBestMoments ---------------------------- *)
\* timestampSecondsOf without the test total <= duration
timestampSecondsUnfiltered(rawTimestamps, duration) == rawTimestamps

\* line 407: timecodes found in the text, kept when total <= duration
timestampSecondsOf(rawTimestamps, duration) ==
    SelectSeq(rawTimestamps, LAMBDA t : Sec(t) <= duration)

\* lines 427, 432: scene cuts kept when t <= duration, then sorted ascending
RECURSIVE InsertAsc(_, _)
InsertAsc(s, x) ==
    IF s = <<>> THEN <<x>>
    ELSE IF x < Head(s) THEN <<x>> \o s
    ELSE <<Head(s)>> \o InsertAsc(Tail(s), x)

RECURSIVE SortAsc(_)
SortAsc(s) == IF s = <<>> THEN <<>> ELSE InsertAsc(SortAsc(Front(s)), Last(s))

sceneCutsOf(rawCuts, duration) ==
    SortAsc(SelectSeq(rawCuts, LAMBDA t : t <= duration))

\* lines 412-417: +1 on [sec-5, sec+5] clipped to the array, per mention
tsPresence(ts, L) ==
    [i \in 0..(L - 1) |->
        Cardinality({k \in 1..Len(ts) :
            /\ Max(0, ts[k] - timestampWeightRadius) <= i
            /\ i <= Min(L - 1, ts[k] + timestampWeightRadius)})]

\* lines 436-442: +1 on [round(cut)-2, round(cut)+2] clipped, per cut
cutDensity(cuts, L) ==
    [i \in 0..(L - 1) |->
        Cardinality({k \in 1..Len(cuts) :
            /\ Max(0, MathRound(cuts[k]) - sceneRadius) <= i
            /\ i <= Min(L - 1, MathRound(cuts[k]) + sceneRadius)})]

\* lines 445-448
scoresOf(ts, cuts, L) ==
    [i \in 0..(L - 1) |->
        tsPresence(ts, L)[i] * TimestampWeight + cutDensity(cuts, L)[i] * CutWeight]

\* lines 455-456: prefix[k] = scores[0] + ... + scores[k-1].  The running sum
\* of the loop is written as a sum over halves, which is the same integer.
RECURSIVE sumScores(_, _, _)
sumScores(scores, lo, hi) ==
    IF lo > hi THEN 0
    ELSE IF lo = hi THEN scores[lo]
    ELSE LET mid == (lo + hi) \div 2
         IN sumScores(scores, lo, mid) + sumScores(scores, mid + 1, hi)

prefixOf(scores, L) == [k \in 0..L |-> sumScores(scores, 0, k - 1)]

\* sumRange with prefix[b] for prefix[b + 1]
sumRangeOffByOne(prefix, a, b) == prefix[b] - prefix[a]

\* lines 457-459
sumRange(prefix, a, b) == prefix[b + 1] - prefix[a]

\* windowScoresOf with Math.ceil in place of Math.floor in maxStart
windowScoresCeil(duration, span, scores, L) ==
    LET maxStart == Max(0, MathCeil(duration - span))
        prefix == prefixOf(scores, L)
    IN [n \in 1..(maxStart + 1) |->
          LET start == n - 1
              end == Min(L - 1, start + (span \div Res) - 1)
          IN [start |-> Sec(start), end |-> Sec(start) + span,
              num |-> sumRange(prefix, start, end), den |-> end - start + 1]]

\* lines 460-464: the candidate windows, score kept as the fraction num/den
windowScoresOf(duration, span, scores, L) ==
    LET maxStart == Max(0, MathFloor(duration - span))
        prefix == prefixOf(scores, L)
    IN [n \in 1..(maxStart + 1) |->
          LET start == n - 1
              end == Min(L - 1, start + (span \div Res) - 1)
          IN [start |-> Sec(start), end |-> Sec(start) + span,
              num |-> sumRange(prefix, start, end), den |-> end - start + 1]]

\* a.score < b.score, on the fractions num/den (den >= 1)
ScoreLess(a, b) == a.num * b.den < b.num * a.den

\* SortDesc with the comparator's operands swapped: a.score - b.score
SortDescSwapped(ws) ==
    LET rank == [n \in 1..Len(ws) |->
                    Cardinality({m \in 1..Len(ws) :
                        \/ ScoreLess(ws[m], ws[n])
                        \/ (m < n /\ ~ScoreLess(ws[n], ws[m]))})]
    IN [r \in 1..Len(ws) |-> ws[CHOOSE n \in 1..Len(ws) : rank[n] = r - 1]]

\* SortDesc by a sort that is not stable: among equal scores the later element
\* comes first
SortDescTiesReversed(ws) ==
    LET rank == [n \in 1..Len(ws) |->
                    Cardinality({m \in 1..Len(ws) :
                        \/ ScoreLess(ws[n], ws[m])
                        \/ (m > n /\ ~ScoreLess(ws[m], ws[n]))})]
    IN [r \in 1..Len(ws) |-> ws[CHOOSE n \in 1..Len(ws) : rank[n] = r - 1]]

\* line 466: sort((a, b) => b.score - a.score).  Array.prototype.sort is stable:
\* an element goes after every element of strictly larger score and after the
\* earlier elements of equal score.
SortDesc(ws) ==
    LET rank == [n \in 1..Len(ws) |->
                    Cardinality({m \in 1..Len(ws) :
                        \/ ScoreLess(ws[n], ws[m])
                        \/ (m < n /\ ~ScoreLess(ws[m], ws[n]))})]
    IN [r \in 1..Len(ws) |-> ws[CHOOSE n \in 1..Len(ws) : rank[n] = r - 1]]

\* Overlaps with c.start written where line 472 has c.end
OverlapsStartOnly(w, c) == ~(w.end <= c.start \/ w.start >= c.start)

\* line 472: the overlap test of the greedy selection
Overlaps(w, c) == ~(w.end <= c.start \/ w.start >= c.end)

\* reasonOf counting over the half-open window [start, end): < where lines
\* 473-474 have <=
reasonOfHalfOpen(w, ts, cuts) ==
    LET tsCount == Cardinality({k \in 1..Len(ts) :
                        Sec(ts[k]) >= w.start /\ Sec(ts[k]) < w.end})
        cutsCount == Cardinality({k \in 1..Len(cuts) :
                        cuts[k] >= w.start /\ cuts[k] < w.end})
    IN IF tsCount = 0 /\ cutsCount = 0
       THEN [kind |-> "relative activity", timestamps |-> 0, coupes |-> 0]
       ELSE [kind |-> "counts", timestamps |-> tsCount, coupes |-> cutsCount]

\* lines 473-479: the justification attached to a chosen window
reasonOf(w, ts, cuts) ==
    LET tsCount == Cardinality({k \in 1..Len(ts) :
                        Sec(ts[k]) >= w.start /\ Sec(ts[k]) <= w.end})
        cutsCount == Cardinality({k \in 1..Len(cuts) :
                        cuts[k] >= w.start /\ cuts[k] <= w.end})
    IN IF tsCount = 0 /\ cutsCount = 0
       THEN [kind |-> "relative activity", timestamps |-> 0, coupes |-> 0]
       ELSE [kind |-> "counts", timestamps |-> tsCount, coupes |-> cutsCount]

\* selectFrom with the count test of line 471 off by one (> for >=)
RECURSIVE selectFromOffByOne(_, _, _, _, _, _)
selectFromOffByOne(ws, chosen, maxHighlights, duration, ts, cuts) ==
    IF ws = <<>> \/ Len(chosen) > maxHighlights THEN chosen
    ELSE LET w == Head(ws)
         IN IF \E k \in 1..Len(chosen) : Overlaps(w, chosen[k])
            THEN selectFromOffByOne(Tail(ws), chosen, maxHighlights, duration, ts, cuts)
            ELSE selectFromOffByOne(Tail(ws),
                     Append(chosen, [start |-> w.start,
                                     end |-> Min(duration, w.end),
                                     num |-> w.num, den |-> w.den,
                                     reason |-> reasonOf(w, ts, cuts)]),
                     maxHighlights, duration, ts, cuts)

\* selectFrom leaving the loop at the first overlapping candidate (break where
\* line 472 has continue)
RECURSIVE selectFromBreaks(_, _, _, _, _, _)
selectFromBreaks(ws, chosen, maxHighlights, duration, ts, cuts) ==
    IF ws = <<>> \/ Len(chosen) >= maxHighlights THEN chosen
    ELSE LET w == Head(ws)
         IN IF \E k \in 1..Len(chosen) : Overlaps(w, chosen[k])
            THEN chosen
            ELSE selectFromBreaks(Tail(ws),
                     Append(chosen, [start |-> w.start,
                                     end |-> Min(duration, w.end),
                                     num |-> w.num, den |-> w.den,
                                     reason |-> reasonOf(w, ts, cuts)]),
                     maxHighlights, duration, ts, cuts)

\* lines 469-481
RECURSIVE selectFrom(_, _, _, _, _, _)
selectFrom(ws, chosen, maxHighlights, duration, ts, cuts) ==
    IF ws = <<>> \/ Len(chosen) >= maxHighlights THEN chosen
    ELSE LET w == Head(ws)
         IN IF \E k \in 1..Len(chosen) : Overlaps(w, chosen[k])
            THEN selectFrom(Tail(ws), chosen, maxHighlights, duration, ts, cuts)
            ELSE selectFrom(Tail(ws),
                     Append(chosen, [start |-> w.start,
                                     end |-> Min(duration, w.end),
                                     num |-> w.num, den |-> w.den,
                                     reason |-> reasonOf(w, ts, cuts)]),
                     maxHighlights, duration, ts, cuts)

\* lines 341-489; duration <= 0 stands for "!duration || isNaN(duration)":
\* no Duration line matched (duration stays 0) or the line reads 0
getBestMoments(duration, rawTimestamps, rawCuts, maxHighlights, spanSeconds) ==
    IF duration <= 0 THEN <<>>
    ELSE LET L == MathCeil(duration) + 1
             ts == timestampSecondsOf(rawTimestamps, duration)
             cuts == sceneCutsOf(rawCuts, duration)
             scores == scoresOf(ts, cuts, L)
             sorted == SortDesc(windowScoresOf(duration, spanSeconds, scores, L))
             chosen == selectFrom(sorted, <<>>, maxHighlights, duration, ts, cuts)
         IN IF Len(chosen) = 0
            THEN <<[start |-> 0, end |-> Min(duration, spanSeconds),
                    num |-> 0, den |-> 1,
                    reason |-> [kind |-> "fallback", timestamps |-> 0, coupes |-> 0]]>>
            ELSE chosen

(* ------------------------ generateUniqueEffects ------------------------- *)
\* Math.random() is k / RandDen with 0 <= k < RandDen.  Decimal values are
\* held as integers in units of 1/Scale (toFixed's 4 decimals).

\* k * span / RandDen rounded to the nearest integer (half up), the product
\* taken in two parts so that no intermediate value leaves 32 bits
MulDivRound(k, span) ==
    LET H == 100
        A == k * (span \div H)
        B == k * (span % H)
        num == (A % RandDen) * H + B
    IN (A \div RandDen) * H + (num \div RandDen)
          + (IF 2 * (num % RandDen) >= RandDen THEN 1 ELSE 0)

\* randomInRange with the bounds taken as inclusive integers: (max - min + 1)
randomInRangeInclusive(min, max, k) == min + MulDivRound(k, max - min + Scale)

\* lines 41-44: parseFloat((min + Math.random() * (max - min)).toFixed(4));
\* toFixed rounds to the nearest multiple of 1/Scale
randomInRange(min, max, k) == min + MulDivRound(k, max - min)

\* lines 47-49: arr[Math.floor(Math.random() * arr.length)]
randomChoice(arr, k) == arr[((k * Len(arr)) \div RandDen) + 1]

\* Math.floor of a decimal value, as a whole number
FloorUnits(v) == v \div Scale

\* the calls of Math.random() the modelled fields make, in source order
EffectDraws == {"saturation", "contrast", "gamma", "colorTempR", "colorTempG",
                "colorTempB", "rotationDeg", "zoom", "pitchShift", "opacity",
                "margin", "crf", "preset"}

\* generateUniqueEffects with the speed drawn like the other fields (a
\* speed-up of 2% to 8%) instead of pinned at line 107
generateUniqueEffectsSpeed(rnd) ==
    [saturation |-> randomInRange(10100, 10600, rnd["saturation"]),
     contrast |-> randomInRange(10000, 10400, rnd["contrast"]),
     gamma |-> randomInRange(9800, 10400, rnd["gamma"]),
     colorTempR |-> randomInRange(9700, 10300, rnd["colorTempR"]),
     colorTempG |-> randomInRange(9800, 10200, rnd["colorTempG"]),
     colorTempB |-> randomInRange(9600, 10400, rnd["colorTempB"]),
     rotationDeg |-> randomInRange(1000, 5000, rnd["rotationDeg"]),
     zoom |-> randomInRange(10100, 10400, rnd["zoom"]),
     pitchShift |-> randomInRange(9800, 10300, rnd["pitchShift"]),
     speed |-> randomInRange(10200, 10800, rnd["zoom"]),
     mirror |-> TRUE,
     logo |-> [enabled |-> TRUE,
               opacity |-> randomInRange(8500, 10000, rnd["opacity"]),
               margin |-> FloorUnits(randomInRange(8 * Scale, 15 * Scale, rnd["margin"]))],
     crf |-> FloorUnits(randomInRange(21 * Scale, 25 * Scale, rnd["crf"])),
     preset |-> randomChoice(<<"fast", "medium">>, rnd["preset"])]

\* lines 55-126; the fields no property here reads (brightness, hue, pan,
\* grain, blur, chroma shift, vignette, lens, EQ gains, logo scale) are drawn
\* the same way and left out
generateUniqueEffects(rnd) ==
    [saturation |-> randomInRange(10100, 10600, rnd["saturation"]),
     contrast |-> randomInRange(10000, 10400, rnd["contrast"]),
     gamma |-> randomInRange(9800, 10400, rnd["gamma"]),
     colorTempR |-> randomInRange(9700, 10300, rnd["colorTempR"]),
     colorTempG |-> randomInRange(9800, 10200, rnd["colorTempG"]),
     colorTempB |-> randomInRange(9600, 10400, rnd["colorTempB"]),
     rotationDeg |-> randomInRange(1000, 5000, rnd["rotationDeg"]),
     zoom |-> randomInRange(10100, 10400, rnd["zoom"]),
     pitchShift |-> randomInRange(9800, 10300, rnd["pitchShift"]),
     speed |-> Scale,
     mirror |-> TRUE,
     logo |-> [enabled |-> TRUE,
               opacity |-> randomInRange(8500, 10000, rnd["opacity"]),
               margin |-> FloorUnits(randomInRange(8 * Scale, 15 * Scale, rnd["margin"]))],
     crf |-> FloorUnits(randomInRange(21 * Scale, 25 * Scale, rnd["crf"])),
     preset |-> randomChoice(<<"fast", "medium">>, rnd["preset"])]

(* ------------------- buildVideoFilter, buildAudioFilter ----------------- *)
\* A filter graph is the sequence of its stages' names, in the order the
\* string holds them; a stage's parameters are left out.

\* lines 227, 238: the setpts stage, present when effects.speed !== 1.0
speedPart(effects) == IF effects.speed # Scale THEN <<"setpts">> ELSE <<>>

\* line 224
mirrorFilter(effects) == IF effects.mirror THEN <<"hflip">> ELSE <<>>

\* lines 214-230, 245: scale (zoom), rotate, crop, the colour filters, grain,
\* blur, then the optional mirror and speed stages
videoTransform(effects) ==
    <<"scale", "rotate", "crop", "eq", "hue", "colorbalance", "curves", "rgbashift",
      "noise", "unsharp">> \o mirrorFilter(effects) \o speedPart(effects)

\* lines 234-235: the logo's scale, and its opacity stages when opacity < 1
logoStages(effects) ==
    <<"scale">> \o (IF effects.logo.opacity < Scale
                    THEN <<"format", "colorchannelmixer">> ELSE <<>>)

\* line 241: the input pad the watermark chain reads
watermarkInput(hasLogo, hasWatermark) == IF hasWatermark THEN "[1:v]" ELSE ""

\* logoInput naming the third input whenever a logo is drawn
logoInputSecond(hasLogo, hasWatermark) == IF hasLogo THEN "[2:v]" ELSE ""

\* line 242: the input pad the logo chain reads
logoInput(hasLogo, hasWatermark) ==
    IF hasLogo THEN (IF hasWatermark THEN "[2:v]" ELSE "[1:v]") ELSE ""

\* lines 191-298: the stages of the graph in order, an input pad standing
\* where the graph names one
buildVideoFilter(blurFill, hasLogo, hasWatermark, effects) ==
    LET wm == watermarkInput(hasLogo, hasWatermark)
        logo == logoInput(hasLogo, hasWatermark)
    IN IF blurFill
       THEN <<"split">> \o videoTransform(effects) \o <<"scale">>
                \o <<"scale", "boxblur", "crop">>
                \o (IF hasWatermark /\ hasLogo
                    THEN <<wm, "scale", "overlay", logo>> \o logoStages(effects)
                             \o <<"overlay", "overlay">>
                    ELSE IF hasWatermark THEN <<wm, "scale", "overlay", "overlay">>
                    ELSE IF hasLogo
                         THEN <<logo>> \o logoStages(effects) \o <<"overlay", "overlay">>
                    ELSE <<"overlay">>)
       ELSE videoTransform(effects) \o <<"crop", "scale">>
                \o (IF hasWatermark /\ hasLogo
                    THEN <<wm, "scale", "overlay", logo>> \o logoStages(effects)
                             \o <<"overlay">>
                    ELSE IF hasWatermark THEN <<wm, "scale", "overlay">>
                    ELSE IF hasLogo THEN <<logo>> \o logoStages(effects) \o <<"overlay">>
                    ELSE <<>>)

\* lines 828-834: -i tempFile, then the watermark and the logo when present
cmdInputs(hasLogo, hasWatermark) ==
    <<"tempFile">> \o (IF hasWatermark THEN <<"watermarkFile">> ELSE <<>>)
                   \o (IF hasLogo THEN <<"logoFile">> ELSE <<>>)

\* lines 830-831
filterFlagOf(hasLogo, hasWatermark) ==
    IF hasLogo \/ hasWatermark THEN "-filter_complex" ELSE "-vf"

\* lines 306-321: bass, treble, the pitch shift (asetrate, aresample and the
\* atempo that compensates it), then an atempo for the speed when it is not 1.0
buildAudioFilter(effects) ==
    <<"bass", "treble", "asetrate", "aresample", "atempo">>
        \o (IF effects.speed # Scale THEN <<"atempo">> ELSE <<>>)

\* lines 21-32, on the numbers between the colons; the result in ticks.  A
\* single part is parts[0] || 0, which is the number itself.
toSeconds(parts) ==
    IF Len(parts) = 3 THEN Sec(parts[1] * 3600 + parts[2] * 60 + parts[3])
    ELSE IF Len(parts) = 2 THEN Sec(parts[1] * 60 + parts[2])
    ELSE Sec(parts[1])

(* ------------------------ main: building the plan ----------------------- *)
\* splitFrom without the remainder push of lines 727 / 751
RECURSIVE splitFromDropsRemainder(_, _, _)
splitFromDropsRemainder(cur, end, targetSegment) ==
    IF cur + targetSegment <= end
    THEN <<[start |-> cur, end |-> cur + targetSegment]>>
             \o splitFromDropsRemainder(cur + targetSegment, end, targetSegment)
    ELSE <<>>

\* splitFrom adding each full segment at the front (unshift for push)
RECURSIVE splitFromUnshift(_, _, _)
splitFromUnshift(cur, end, targetSegment) ==
    IF cur + targetSegment <= end
    THEN splitFromUnshift(cur + targetSegment, end, targetSegment)
             \o <<[start |-> cur, end |-> cur + targetSegment]>>
    ELSE IF cur < end THEN <<[start |-> cur, end |-> end]>> ELSE <<>>

\* lines 722-727 and 746-751: the auto-split loop from cur up to end
RECURSIVE splitFrom(_, _, _)
splitFrom(cur, end, targetSegment) ==
    IF cur + targetSegment <= end
    THEN <<[start |-> cur, end |-> cur + targetSegment]>>
             \o splitFrom(cur + targetSegment, end, targetSegment)
    ELSE IF cur < end THEN <<[start |-> cur, end |-> end]>> ELSE <<>>

\* lines 743-753: one explicit range, auto-split
splitRange(r, targetSegment) ==
    IF r.end <= r.start THEN <<>> ELSE splitFrom(r.start, r.end, targetSegment)

\* line 743: ranges.flatMap(...)
RECURSIVE flatMapSplit(_, _)
flatMapSplit(rs, targetSegment) ==
    IF rs = <<>> THEN <<>>
    ELSE splitRange(Head(rs), targetSegment) \o flatMapSplit(Tail(rs), targetSegment)

\* lines 368-379 and 704-713: the value read from ffmpeg's "Duration:" line;
\* the local stays 0 when the line does not match
durationOf(line) == IF line = <<>> THEN 0 ELSE line[1]

(* -------------------------------- state -------------------------------- *)
VARIABLES
    pc,              \* position of the main routine
    highlightMode,   \* line 559
    useAllVideo,     \* line 578
    autoSplit,       \* lines 583, 589
    segmentLength,   \* lines 594-605, in ticks
    highlightCount,  \* lines 560-570
    ranges,          \* lines 732-739: the parsed explicit ranges
    videoLength,     \* the real length of video_temp.mp4, in ticks
    durationLine,    \* ffmpeg's Duration line: <<>> (no match) or <<videoLength>>
    rawTimestamps,   \* timecodes (seconds) found in description and comments
    rawCuts,         \* pts_time values (ticks) printed by scene detection
    highlights,      \* line 691: what getBestMoments returned
    expandedRanges,  \* line 688: the plan
    i,               \* line 799: loop index (1-based here, i + 1 in the code)
    submitted,       \* the render commands handed to execSync, in order
    failed,          \* indices whose execSync threw (line 844)
    warned,          \* indices reported "ignored (end <= start)" (line 802)
    tempFileExists,  \* video_temp.mp4 is on disk
    uniqueEffects,   \* line 808: the last generated effect profile
    ytDlpPresent,    \* line 607: yt-dlp.exe is in the program folder
    ffmpegPresent,   \* line 611: ffmpeg.exe is in the program folder
    useBlurFill,     \* the output format chosen
    hasLogoFile,     \* line 764: logo.jpg exists
    hasWatermarkFile,\* line 771: watermark.png exists
    videoFilter,     \* line 813: the stages of the video filter graph
    audioFilter,     \* line 814: the stages of the audio filter chain
    ffmpegInputs,    \* lines 828-834: the -i inputs of the command, in order
    filterFlag,      \* line 831: the option that carries the video filter
    legacyParts,     \* lines 1363-1382: the parts the legacy splitter cuts
    clipGroups,      \* the plan's clip groups: sequences of window indices
    g,               \* the clip group being assembled
    clips,           \* the assembled clip artifacts, in order
    captions,        \* the source caption track
    offset,          \* the re-timer's running offset, in ticks
    retimed          \* the clip's re-timed caption list

vars == <<pc, highlightMode, useAllVideo, autoSplit, segmentLength, highlightCount,
          ranges, videoLength, durationLine, rawTimestamps, rawCuts, highlights,
          expandedRanges,
          i, submitted, failed, warned, tempFileExists, uniqueEffects,
          ytDlpPresent, ffmpegPresent, useBlurFill, hasLogoFile, hasWatermarkFile,
          videoFilter, audioFilter, ffmpegInputs, filterFlag, legacyParts,
          clipGroups, g, clips, captions, offset, retimed>>

inputs == <<highlightMode, useAllVideo, autoSplit, segmentLength, highlightCount,
            ranges, videoLength, durationLine, rawTimestamps, rawCuts>>

binaries == <<ytDlpPresent, ffmpegPresent>>
filterVars == <<useBlurFill, hasLogoFile, hasWatermarkFile, videoFilter, audioFilter,
                ffmpegInputs, filterFlag>>
clipVars == <<clipGroups, g, clips>>
captionVars == <<captions, offset, retimed>>
assembly == <<filterVars, clipVars, captionVars, legacyParts>>

NoEffects == [generated |-> FALSE]

(* ------------------------------ input sets ------------------------------ *)
\* sequences over S of length 0..n
SeqsUpTo(S, n) == UNION {[1..k -> S] : k \in 0..n}
NonDecreasing(s) == \A k \in 1..(Len(s) - 1) : s[k] <= s[k + 1]

\* the timecodes the operator types for a range bound, as the numbers between
\* the colons: s, m:s and h:m:s forms of the whole seconds 0..MaxTime
TimeParts == UNION {{<<s>>, <<0, s>>, <<0, 0, s>>} : s \in 0..MaxTime}

\* explicit ranges (lines 732-739): both bounds through toSeconds
RangeSet == [start : {toSeconds(p) : p \in TimeParts},
             end : {toSeconds(p) : p \in TimeParts}]

\* durations ffmpeg can report: short ones, and ones around one and two default spans
ShortDurations == 0..Sec(MaxDuration)
LongDurations == {k * Sec(DefaultSegmentLength) + d : k \in 1..2, d \in 0..Res}
\* the downloaded file of the main run holds a video: its length is positive
Durations == (ShortDurations \ {0}) \cup LongDurations

\* answers to "Segment duration in seconds?" (parseInt > 0), else the default
SegmentLengths == {Sec(t) : t \in 1..MaxSegment} \cup {Sec(DefaultSegmentLength)}

\* evidence offered to the main run's scorer
MainTimecodes == {MaxDuration, 2 * DefaultSegmentLength}
MainCuts == {Sec(1) + 1}

\* the plan is kept to MaxWindows windows: a whole video is at most that many segments
FitsPlan(d, T) == MathCeil(d) <= MaxWindows * (T \div Res)

(* --------------------------------- Init -------------------------------- *)
\* the stages a specification does not run stay as they are before the run
InitAssembly ==
    /\ useBlurFill = TRUE /\ hasLogoFile = FALSE /\ hasWatermarkFile = FALSE
    /\ videoFilter = <<>> /\ audioFilter = <<>>
    /\ ffmpegInputs = <<>> /\ filterFlag = ""
    /\ legacyParts = <<>>
    /\ clipGroups = <<>> /\ g = 1 /\ clips = <<>>
    /\ captions = <<>> /\ offset = 0 /\ retimed = <<>>

BinariesPresent == ytDlpPresent = TRUE /\ ffmpegPresent = TRUE

InitRun ==
    /\ pc = "start"
    /\ ytDlpPresent \in BOOLEAN /\ ffmpegPresent \in BOOLEAN
    /\ InitAssembly
    /\ highlights = <<>>
    /\ expandedRanges = <<>>
    /\ i = 1
    /\ submitted = <<>>
    /\ failed = {}
    /\ warned = {}
    /\ tempFileExists = TRUE
    /\ uniqueEffects = NoEffects

InitHighlight ==
    /\ highlightMode = TRUE /\ useAllVideo = FALSE /\ autoSplit = FALSE
    /\ segmentLength = Sec(DefaultSegmentLength)
    /\ highlightCount \in (1..MaxHighlights) \cup {DefaultHighlightCount}
    /\ ranges = <<>>
    /\ videoLength \in Durations
    /\ durationLine \in {<<>>, <<videoLength>>}
    /\ rawTimestamps \in {s \in SeqsUpTo(MainTimecodes, MaxMentions) : NonDecreasing(s)}
    /\ rawCuts \in SeqsUpTo(MainCuts, MaxCuts)

InitAllVideo ==
    /\ highlightMode = FALSE /\ useAllVideo = TRUE
    /\ autoSplit \in BOOLEAN
    /\ segmentLength \in (IF autoSplit THEN SegmentLengths ELSE {Sec(DefaultSegmentLength)})
    /\ highlightCount = DefaultHighlightCount
    /\ ranges = <<>>
    /\ videoLength \in {d \in Durations : autoSplit => FitsPlan(d, segmentLength)}
    /\ durationLine \in {<<>>, <<videoLength>>}
    /\ rawTimestamps = <<>> /\ rawCuts = <<>>

InitExplicit ==
    /\ highlightMode = FALSE /\ useAllVideo = FALSE
    /\ autoSplit \in BOOLEAN
    /\ segmentLength \in (IF autoSplit THEN SegmentLengths ELSE {Sec(DefaultSegmentLength)})
    /\ highlightCount = DefaultHighlightCount
    /\ ranges \in SeqsUpTo(RangeSet, MaxRanges)
    /\ videoLength = Sec(MaxDuration)
    /\ durationLine = <<videoLength>>
    /\ rawTimestamps = <<>> /\ rawCuts = <<>>

Init == InitRun /\ (InitHighlight \/ InitAllVideo \/ InitExplicit)

(* ------------------------------- actions -------------------------------- *)
\* lines 607-610: yt-dlp.exe is not in the folder, process.exit(1)
ExitNoYtDlp ==
    /\ pc = "start" /\ ~ytDlpPresent
    /\ pc' = "exit"
    /\ UNCHANGED <<binaries, assembly, inputs, highlights, expandedRanges, i, submitted,
                   failed, warned, tempFileExists, uniqueEffects>>

\* lines 611-613, 491-536: ffmpeg.exe is not in the folder; the archive is
\* fetched, unpacked and ffmpeg.exe copied into the folder
DownloadFFmpeg ==
    /\ pc = "start" /\ ytDlpPresent /\ ~ffmpegPresent
    /\ ffmpegPresent' = TRUE
    /\ pc' = "build"
    /\ UNCHANGED <<ytDlpPresent, assembly, inputs, highlights, expandedRanges, i,
                   submitted, failed, warned, tempFileExists, uniqueEffects>>

\* lines 504-506, 509-512, 531-534: the download fails (HTTP status, network
\* error) or the archive holds no ffmpeg.exe; the process ends
DownloadFFmpegFails ==
    /\ pc = "start" /\ ytDlpPresent /\ ~ffmpegPresent
    /\ pc' = "download-failed"
    /\ UNCHANGED <<binaries, assembly, inputs, highlights, expandedRanges, i, submitted,
                   failed, warned, tempFileExists, uniqueEffects>>

\* lines 607-613: both binaries are in the folder
StartUp ==
    /\ pc = "start" /\ ytDlpPresent /\ ffmpegPresent
    /\ pc' = "build"
    /\ UNCHANGED <<binaries, assembly, inputs, highlights, expandedRanges, i, submitted,
                   failed, warned, tempFileExists, uniqueEffects>>

toRange(h) == [start |-> h.start, end |-> h.end]

\* lines 689-701
BuildHighlights ==
    /\ pc = "build" /\ highlightMode
    /\ highlights' = getBestMoments(durationOf(durationLine), rawTimestamps, rawCuts,
                                    highlightCount, segmentLength)
    /\ expandedRanges' =
          IF Len(highlights') = 0
          THEN <<[start |-> 0, end |-> segmentLength]>>
          ELSE [k \in 1..Len(highlights') |-> toRange(highlights'[k])]
    /\ pc' = "render"
    /\ UNCHANGED <<binaries, assembly, inputs, i, submitted, failed, warned, tempFileExists, uniqueEffects>>

\* lines 713-716: no Duration line, process.exit(1)
ExitNoDuration ==
    /\ pc = "build" /\ ~highlightMode /\ useAllVideo
    /\ durationLine = <<>>
    /\ pc' = "exit"
    /\ UNCHANGED <<binaries, assembly, inputs, highlights, expandedRanges, i, submitted, failed, warned,
                   tempFileExists, uniqueEffects>>

\* lines 702-730
BuildAllVideo ==
    /\ pc = "build" /\ ~highlightMode /\ useAllVideo
    /\ durationLine # <<>>
    /\ LET videoDuration == durationOf(durationLine)
       IN expandedRanges' =
             IF autoSplit THEN splitFrom(0, videoDuration, segmentLength)
             ELSE <<[start |-> 0, end |-> videoDuration]>>
    /\ pc' = "render"
    /\ UNCHANGED <<binaries, assembly, inputs, highlights, i, submitted, failed, warned, tempFileExists,
                   uniqueEffects>>

\* lines 731-755
BuildExplicit ==
    /\ pc = "build" /\ ~highlightMode /\ ~useAllVideo
    /\ expandedRanges' = IF autoSplit THEN flatMapSplit(ranges, segmentLength) ELSE ranges
    /\ pc' = "render"
    /\ UNCHANGED <<binaries, assembly, inputs, highlights, i, submitted, failed, warned, tempFileExists,
                   uniqueEffects>>

\* SkipRange taking the ignored window out of the plan (splice) instead of
\* stepping over it
SkipRangeSplices ==
    /\ pc = "render" /\ i <= Len(expandedRanges)
    /\ expandedRanges[i].end <= expandedRanges[i].start
    /\ warned' = warned \cup {i}
    /\ expandedRanges' = SubSeq(expandedRanges, 1, i - 1)
                             \o SubSeq(expandedRanges, i + 1, Len(expandedRanges))
    /\ UNCHANGED <<binaries, assembly, pc, inputs, highlights, i, submitted, failed,
                   tempFileExists, uniqueEffects>>

\* lines 799-804: the range is reported and skipped
SkipRange ==
    /\ pc = "render" /\ i <= Len(expandedRanges)
    /\ expandedRanges[i].end <= expandedRanges[i].start
    /\ warned' = warned \cup {i}
    /\ i' = i + 1
    /\ UNCHANGED <<binaries, assembly, pc, inputs, highlights, expandedRanges, submitted, failed,
                   tempFileExists, uniqueEffects>>

\* the output path of line 824; path.join and the fixed text of the name are
\* the same for every window, so the name is its four interpolated values
outName(k) == <<k, expandedRanges[k].start, expandedRanges[k].end,
                IF useBlurFill THEN "blur" ELSE "crop">>

\* cmdOf numbering the request by the requests issued so far, not by the
\* window's place in the plan
cmdOfCounted(k) ==
    [index |-> Len(submitted) + 1, ss |-> expandedRanges[k].start,
     t |-> expandedRanges[k].end - expandedRanges[k].start,
     out |-> <<Len(submitted) + 1, expandedRanges[k].start, expandedRanges[k].end,
               IF useBlurFill THEN "blur" ELSE "crop">>]

\* cmdOf writing to a name without the window's number:
\* segment_${start}s_${end}s_...
cmdOfUnnumbered(k) ==
    [index |-> k, ss |-> expandedRanges[k].start,
     t |-> expandedRanges[k].end - expandedRanges[k].start,
     out |-> <<expandedRanges[k].start, expandedRanges[k].end,
               IF useBlurFill THEN "blur" ELSE "crop">>]

\* lines 824-838: the command of iteration i
cmdOf(k) == [index |-> k, ss |-> expandedRanges[k].start,
             t |-> expandedRanges[k].end - expandedRanges[k].start,
             out |-> outName(k)]

\* RenderOk without the end <= start test of lines 801-804
RenderOkUnguarded ==
    /\ pc = "render" /\ i <= Len(expandedRanges)
    /\ submitted' = Append(submitted, cmdOf(i))
    /\ i' = i + 1
    /\ UNCHANGED <<binaries, assembly, pc, inputs, highlights, expandedRanges, failed, warned,
                   tempFileExists, uniqueEffects>>

\* lines 805-843: execSync returns
RenderOk ==
    /\ pc = "render" /\ i <= Len(expandedRanges)
    /\ expandedRanges[i].end > expandedRanges[i].start
    /\ submitted' = Append(submitted, cmdOf(i))
    /\ i' = i + 1
    /\ UNCHANGED <<binaries, assembly, pc, inputs, highlights, expandedRanges, failed, warned,
                   tempFileExists, uniqueEffects>>

\* RenderFail without the try/catch of lines 842-846: the exception ends the run
RenderFailAborts ==
    /\ pc = "render" /\ i <= Len(expandedRanges)
    /\ expandedRanges[i].end > expandedRanges[i].start
    /\ submitted' = Append(submitted, cmdOf(i))
    /\ failed' = failed \cup {i}
    /\ pc' = "exit"
    /\ UNCHANGED <<binaries, assembly, inputs, highlights, expandedRanges, i, warned, tempFileExists,
                   uniqueEffects>>

\* RenderFail with a catch that removes the temporary file before going on
RenderFailCleansUp ==
    /\ pc = "render" /\ i <= Len(expandedRanges)
    /\ expandedRanges[i].end > expandedRanges[i].start
    /\ submitted' = Append(submitted, cmdOf(i))
    /\ failed' = failed \cup {i}
    /\ i' = i + 1
    /\ tempFileExists' = FALSE
    /\ UNCHANGED <<binaries, assembly, pc, inputs, highlights, expandedRanges, warned,
                   uniqueEffects>>

\* lines 805-846: execSync throws, the catch logs and the loop goes on
RenderFail ==
    /\ pc = "render" /\ i <= Len(expandedRanges)
    /\ expandedRanges[i].end > expandedRanges[i].start
    /\ submitted' = Append(submitted, cmdOf(i))
    /\ failed' = failed \cup {i}
    /\ i' = i + 1
    /\ UNCHANGED <<binaries, assembly, pc, inputs, highlights, expandedRanges, warned, tempFileExists,
                   uniqueEffects>>

\* line 799: the loop condition fails, line 849 asks about the temporary file
LoopEnd ==
    /\ pc = "render" /\ i > Len(expandedRanges)
    /\ pc' = "cleanup"
    /\ UNCHANGED <<binaries, assembly, inputs, highlights, expandedRanges, i, submitted, failed, warned,
                   tempFileExists, uniqueEffects>>

\* lines 849-853: the operator answers y
DeleteTemp ==
    /\ pc = "cleanup"
    /\ tempFileExists' = FALSE
    /\ pc' = "done"
    /\ UNCHANGED <<binaries, assembly, inputs, highlights, expandedRanges, i, submitted, failed, warned,
                   uniqueEffects>>

\* lines 849-857: any other answer
KeepTemp ==
    /\ pc = "cleanup"
    /\ pc' = "done"
    /\ UNCHANGED <<binaries, assembly, inputs, highlights, expandedRanges, i, submitted, failed, warned,
                   tempFileExists, uniqueEffects>>

Next ==
    \/ ExitNoYtDlp \/ DownloadFFmpeg \/ DownloadFFmpegFails \/ StartUp
    \/ BuildHighlights \/ ExitNoDuration \/ BuildAllVideo \/ BuildExplicit
    \/ SkipRange \/ RenderOk \/ RenderFail \/ LoopEnd
    \/ DeleteTemp \/ KeepTemp

Spec == Init /\ [][Next]_vars

\* lines 799-847: the loop is sequential and execSync is synchronous, so an
\* iteration that can run does run
RenderLoop == SkipRange \/ RenderOk \/ RenderFail \/ LoopEnd

LiveSpec == Spec /\ WF_vars(RenderLoop)

(* ------------------- the scorer alone, on small inputs ------------------ *)
\* getBestMoments is called with every duration, span, count and evidence of
\* the bounded sets below; the main run only ever passes the default span.
\* timecodes at the start, the middle and the end of the longest video, and
\* one past it; cut times off the whole second near the same places
Timecodes == {0, MaxDuration \div 2, MaxDuration, MaxDuration + 1}
CutTimes == {1, Sec(MaxDuration \div 2) + 1, Sec(MaxDuration) - 1}

MomentsInit ==
    /\ BinariesPresent /\ InitAssembly
    /\ pc = "scoring"
    /\ highlightMode = TRUE /\ useAllVideo = FALSE /\ autoSplit = FALSE
    /\ segmentLength \in {Sec(t) : t \in 1..MaxSpan}
    /\ highlightCount \in 1..MaxHighlights
    /\ ranges = <<>>
    /\ videoLength \in ShortDurations
    /\ durationLine = <<videoLength>>
    /\ rawTimestamps \in {s \in SeqsUpTo(Timecodes, MaxMentions) : NonDecreasing(s)}
    /\ rawCuts \in SeqsUpTo(CutTimes, MaxCuts)
    /\ highlights = <<>>
    /\ expandedRanges = <<>>
    /\ i = 1
    /\ submitted = <<>>
    /\ failed = {}
    /\ warned = {}
    /\ tempFileExists = TRUE
    /\ uniqueEffects = NoEffects

\* line 691, the call alone
Score ==
    /\ pc = "scoring"
    /\ highlights' = getBestMoments(durationOf(durationLine), rawTimestamps, rawCuts,
                                    highlightCount, segmentLength)
    /\ pc' = "scored"
    /\ UNCHANGED <<binaries, assembly, inputs, expandedRanges, i, submitted, failed, warned,
                   tempFileExists, uniqueEffects>>

MomentsSpec == MomentsInit /\ [][Score]_vars

(* ----------------- the scorer on a single timecode mention --------------- *)
\* one timecode in the text and no scene cut, for spans up to and past the
\* 2 * 5 + 1 seconds a mention weighs on, and the case D = 100, S = 30, N = 3
\* with the mention at 0:50
TestedPeak == [duration |-> 100, span |-> 30, count |-> 3, peak |-> 50]

PeakInit ==
    /\ pc = "scoring"
    /\ BinariesPresent /\ InitAssembly
    /\ highlightMode = TRUE /\ useAllVideo = FALSE /\ autoSplit = FALSE
    /\ ranges = <<>>
    /\ \/ /\ segmentLength \in {Sec(t) : t \in 1..MaxPeakSpan}
          /\ highlightCount \in {1, MaxHighlights}
          /\ videoLength \in 1..Sec(MaxPeakDuration)
          /\ rawTimestamps \in {<<t>> : t \in 0..MaxPeakDuration}
       \/ /\ segmentLength = Sec(TestedPeak.span)
          /\ highlightCount = TestedPeak.count
          /\ videoLength = Sec(TestedPeak.duration)
          /\ rawTimestamps = <<TestedPeak.peak>>
    /\ durationLine = <<videoLength>>
    /\ rawCuts = <<>>
    /\ highlights = <<>>
    /\ expandedRanges = <<>>
    /\ i = 1
    /\ submitted = <<>>
    /\ failed = {}
    /\ warned = {}
    /\ tempFileExists = TRUE
    /\ uniqueEffects = NoEffects

PeakSpec == PeakInit /\ [][Score]_vars

(* ---------------------- the effect generator alone ---------------------- *)
\* outcomes of Math.random(): the least, a middle one and the greatest
RandomSamples == {0, RandDen \div 2, RandDen - 1}

EffectsInit ==
    /\ BinariesPresent /\ InitAssembly
    /\ pc = "effects"
    /\ highlightMode = FALSE /\ useAllVideo = FALSE /\ autoSplit = FALSE
    /\ segmentLength = Sec(DefaultSegmentLength)
    /\ highlightCount = DefaultHighlightCount
    /\ ranges = <<>>
    /\ videoLength = Sec(MaxDuration)
    /\ durationLine = <<videoLength>>
    /\ rawTimestamps = <<>> /\ rawCuts = <<>>
    /\ highlights = <<>>
    /\ expandedRanges = <<>>
    /\ i = 1
    /\ submitted = <<>>
    /\ failed = {}
    /\ warned = {}
    /\ tempFileExists = TRUE
    /\ uniqueEffects = NoEffects

\* line 808, the call alone, for every outcome of the random source
Generate ==
    /\ pc = "effects"
    /\ \E rnd \in [EffectDraws -> RandomSamples] :
          uniqueEffects' = generateUniqueEffects(rnd)
    /\ pc' = "generated"
    /\ UNCHANGED <<binaries, assembly, inputs, highlights, expandedRanges, i, submitted, failed, warned,
                   tempFileExists>>

EffectsSpec == EffectsInit /\ [][Generate]_vars

(* ------------------ one loop iteration's filter building ---------------- *)
\* outcomes of Math.random() for the filter run: the least and the greatest
FilterSamples == {0, RandDen - 1}

FilterInit ==
    /\ pc = "filters"
    /\ BinariesPresent
    /\ useBlurFill \in BOOLEAN /\ hasLogoFile \in BOOLEAN /\ hasWatermarkFile \in BOOLEAN
    /\ videoFilter = <<>> /\ audioFilter = <<>>
    /\ ffmpegInputs = <<>> /\ filterFlag = ""
    /\ legacyParts = <<>>
    /\ clipGroups = <<>> /\ g = 1 /\ clips = <<>>
    /\ captions = <<>> /\ offset = 0 /\ retimed = <<>>
    /\ highlightMode = FALSE /\ useAllVideo = FALSE /\ autoSplit = FALSE
    /\ segmentLength = Sec(DefaultSegmentLength)
    /\ highlightCount = DefaultHighlightCount
    /\ ranges = <<>>
    /\ videoLength = Sec(MaxDuration)
    /\ durationLine = <<videoLength>>
    /\ rawTimestamps = <<>> /\ rawCuts = <<>>
    /\ highlights = <<>>
    /\ expandedRanges = <<>>
    /\ i = 1
    /\ submitted = <<>>
    /\ failed = {}
    /\ warned = {}
    /\ tempFileExists = TRUE
    /\ uniqueEffects = NoEffects

\* lines 808-814: the profile of the iteration and the two filters built from it
BuildFilters ==
    /\ pc = "filters"
    /\ \E rnd \in [EffectDraws -> FilterSamples] :
          LET effects == generateUniqueEffects(rnd)
              hasLogo == effects.logo.enabled /\ hasLogoFile
              hasWatermark == hasWatermarkFile
          IN /\ uniqueEffects' = effects
             /\ videoFilter' = buildVideoFilter(useBlurFill, hasLogo, hasWatermark, effects)
             /\ audioFilter' = buildAudioFilter(effects)
             /\ ffmpegInputs' = cmdInputs(hasLogo, hasWatermark)
             /\ filterFlag' = filterFlagOf(hasLogo, hasWatermark)
    /\ pc' = "filtered"
    /\ UNCHANGED <<binaries, useBlurFill, hasLogoFile, hasWatermarkFile, clipVars, legacyParts,
                   captionVars, inputs, highlights, expandedRanges, i, submitted,
                   failed, warned, tempFileExists>>

FilterSpec == FilterInit /\ [][BuildFilters]_vars

(* ---------------------------- caption re-timer -------------------------- *)
\* overlapsWindow: a caption is taken as soon as it shares an instant with the window
overlapsWindow(c, w) == c.sourceStart < w.end /\ c.sourceEnd > w.start

\* [sourceStart, sourceEnd] is fully contained within [window.start, window.end]
containedIn(c, w) == w.start <= c.sourceStart /\ c.sourceEnd <= w.end

\* retimeEntry without the running offset
retimeEntryNoOffset(c, w, off) ==
    [clipLocalStart |-> c.sourceStart - w.start,
     clipLocalEnd |-> c.sourceEnd - w.start,
     text |-> c.text]

\* [sourceStart - window.start + offset, sourceEnd - window.start + offset]
retimeEntry(c, w, off) ==
    [clipLocalStart |-> c.sourceStart - w.start + off,
     clipLocalEnd |-> c.sourceEnd - w.start + off,
     text |-> c.text]

\* the entries of one window, in the order of the caption track
retimeWindow(cs, w, off) ==
    LET inside == SelectSeq(cs, LAMBDA c : containedIn(c, w))
    IN [k \in 1..Len(inside) |-> retimeEntry(inside[k], w, off)]

\* the texts of the caption track's entries, by position
CaptionTexts == <<"hi", "yo", "split", "more">>

\* caption tracks: up to MaxCaptions entries on whole seconds, ordered by start
CaptionSpans == {iv \in [a : 0..MaxTime, b : 0..MaxTime] : iv.a <= iv.b}
CaptionTracks ==
    {[k \in 1..Len(t) |-> [sourceStart |-> Sec(t[k].a), sourceEnd |-> Sec(t[k].b),
                           text |-> CaptionTexts[k]]] :
        t \in {u \in SeqsUpTo(CaptionSpans, MaxCaptions) :
                  \A k \in 1..(Len(u) - 1) : u[k].a <= u[k + 1].a}}

\* the windows of one clip: non-empty, each starting no earlier than the previous ends
ClipWindows ==
    {ws \in SeqsUpTo(RangeSet, MaxRanges) :
        /\ \A k \in 1..Len(ws) : ws[k].end > ws[k].start
        /\ \A k \in 1..(Len(ws) - 1) : ws[k].end <= ws[k + 1].start}

\* windows [10,20) then [50,55) with captions [12,14,"hi"], [15,25,"split"], [51,53,"yo"]
TestedWindows == <<[start |-> Sec(10), end |-> Sec(20)], [start |-> Sec(50), end |-> Sec(55)]>>
TestedCaptions ==
    <<[sourceStart |-> Sec(12), sourceEnd |-> Sec(14), text |-> "hi"],
      [sourceStart |-> Sec(15), sourceEnd |-> Sec(25), text |-> "split"],
      [sourceStart |-> Sec(51), sourceEnd |-> Sec(53), text |-> "yo"]>>

CaptionInit ==
    /\ pc = "retime"
    /\ BinariesPresent
    /\ useBlurFill = TRUE /\ hasLogoFile = FALSE /\ hasWatermarkFile = FALSE
    /\ videoFilter = <<>> /\ audioFilter = <<>>
    /\ ffmpegInputs = <<>> /\ filterFlag = ""
    /\ legacyParts = <<>>
    /\ clipGroups = <<>> /\ g = 1 /\ clips = <<>>
    /\ \/ expandedRanges \in ClipWindows /\ captions \in CaptionTracks
       \/ expandedRanges = TestedWindows /\ captions = TestedCaptions
    /\ offset = 0 /\ retimed = <<>>
    /\ highlightMode = FALSE /\ useAllVideo = FALSE /\ autoSplit = FALSE
    /\ segmentLength = Sec(DefaultSegmentLength)
    /\ highlightCount = DefaultHighlightCount
    /\ ranges = <<>>
    /\ videoLength = Sec(DefaultSegmentLength)
    /\ durationLine = <<videoLength>>
    /\ rawTimestamps = <<>> /\ rawCuts = <<>>
    /\ highlights = <<>>
    /\ i = 1
    /\ submitted = <<>>
    /\ failed = {}
    /\ warned = {}
    /\ tempFileExists = TRUE
    /\ uniqueEffects = NoEffects

\* one window of the clip: its contained captions are re-timed and appended,
\* then the offset grows by the window's length, captions or not
RetimeWindow ==
    /\ pc = "retime" /\ i <= Len(expandedRanges)
    /\ retimed' = retimed \o retimeWindow(captions, expandedRanges[i], offset)
    /\ offset' = offset + (expandedRanges[i].end - expandedRanges[i].start)
    /\ i' = i + 1
    /\ UNCHANGED <<pc, binaries, filterVars, clipVars, legacyParts, captions, inputs, highlights,
                   expandedRanges, submitted, failed, warned, tempFileExists,
                   uniqueEffects>>

\* every window is done: the clip proceeds, with its captions or without any
RetimeDone ==
    /\ pc = "retime" /\ i > Len(expandedRanges)
    /\ pc' = IF retimed = <<>> THEN "clip without captions" ELSE "clip with captions"
    /\ UNCHANGED <<binaries, assembly, inputs, highlights, expandedRanges, i, submitted,
                   failed, warned, tempFileExists, uniqueEffects>>

CaptionSpec == CaptionInit /\ [][RetimeWindow \/ RetimeDone]_vars

(* ----------------------------- clip assembler --------------------------- *)
\* the window's render was requested and did not fail
renderSucceeded(j) ==
    /\ \E c \in 1..Len(submitted) : submitted[c].index = j
    /\ j \notin failed

\* assembleGroup keeping every window of the group, rendered or not
assembleGroupAll(group) == group

\* the successfully rendered windows of a group, in window order
assembleGroup(group) == SelectSeq(group, renderSucceeded)

\* the consecutive groups of windows 1..n that the cuts after the windows of B make
groupsOf(n, B) ==
    LET starts == {1} \cup {b + 1 : b \in B}
        nth(j) == CHOOSE x \in starts : Cardinality({y \in starts : y < x}) = j - 1
        last(j) == IF j = Cardinality(starts) THEN n ELSE nth(j + 1) - 1
    IN [j \in 1..Cardinality(starts) |->
           [k \in 1..(last(j) - nth(j) + 1) |-> nth(j) + k - 1]]

ClipInit ==
    /\ pc = "render"
    /\ BinariesPresent
    /\ useBlurFill = TRUE /\ hasLogoFile = FALSE /\ hasWatermarkFile = FALSE
    /\ videoFilter = <<>> /\ audioFilter = <<>>
    /\ ffmpegInputs = <<>> /\ filterFlag = ""
    /\ legacyParts = <<>>
    /\ \E n \in 1..MaxGroupWindows :
          /\ expandedRanges = [k \in 1..n |-> [start |-> Sec(k - 1), end |-> Sec(k)]]
          /\ clipGroups \in {groupsOf(n, B) : B \in SUBSET (1..(n - 1))}
    /\ g = 1 /\ clips = <<>>
    /\ captions = <<>> /\ offset = 0 /\ retimed = <<>>
    /\ highlightMode = FALSE /\ useAllVideo = FALSE /\ autoSplit = FALSE
    /\ segmentLength = Sec(DefaultSegmentLength)
    /\ highlightCount = DefaultHighlightCount
    /\ ranges = <<>>
    /\ videoLength = Sec(DefaultSegmentLength)
    /\ durationLine = <<videoLength>>
    /\ rawTimestamps = <<>> /\ rawCuts = <<>>
    /\ highlights = <<>>
    /\ i = 1
    /\ submitted = <<>>
    /\ failed = {}
    /\ warned = {}
    /\ tempFileExists = TRUE
    /\ uniqueEffects = NoEffects

\* every window has been attempted: the groups are assembled next
RenderedAll ==
    /\ pc = "render" /\ i > Len(expandedRanges)
    /\ pc' = "assemble"
    /\ UNCHANGED <<binaries, assembly, inputs, highlights, expandedRanges, i, submitted,
                   failed, warned, tempFileExists, uniqueEffects>>

\* one clip group: its successful windows are concatenated in window order;
\* a group with none is skipped and no artifact is produced
AssembleClip ==
    /\ pc = "assemble" /\ g <= Len(clipGroups)
    /\ LET parts == assembleGroup(clipGroups[g])
       IN clips' = IF parts = <<>> THEN clips
                   ELSE Append(clips, [group |-> g, windows |-> parts])
    /\ g' = g + 1
    /\ UNCHANGED <<pc, binaries, filterVars, clipGroups, legacyParts, captionVars, inputs, highlights,
                   expandedRanges, i, submitted, failed, warned, tempFileExists,
                   uniqueEffects>>

\* every group is done
AssembleDone ==
    /\ pc = "assemble" /\ g > Len(clipGroups)
    /\ pc' = "assembled"
    /\ UNCHANGED <<binaries, assembly, inputs, highlights, expandedRanges, i, submitted,
                   failed, warned, tempFileExists, uniqueEffects>>

ClipSpec ==
    ClipInit /\ [][RenderOk \/ RenderFail \/ RenderedAll \/ AssembleClip \/ AssembleDone]_vars

(* ------------------- the legacy fixed-length splitter ------------------- *)
\* lines 1363 and 1378-1379: the length of a part, in seconds
LegacyPartLength == 60
MaxLegacyParts == 2

\* legacyPartsOf with Math.floor where line 1363 has Math.ceil
legacyPartsOfFloor(startSec, endSec) ==
    LET duration == endSec - startSec
        numParts == duration \div Sec(LegacyPartLength)
    IN [n \in 1..numParts |->
          LET partStart == startSec + (n - 1) * Sec(LegacyPartLength)
          IN [start |-> partStart,
              duration |-> IF partStart + Sec(LegacyPartLength) > endSec
                           THEN endSec - partStart
                           ELSE Sec(LegacyPartLength)]]

\* lines 1362-1382: numParts = Math.ceil(duration / 60); part i (0-based in the
\* code) starts at startSec + i * 60 and lasts 60, or what is left up to endSec
legacyPartsOf(startSec, endSec) ==
    LET duration == endSec - startSec
        numParts == (duration + Sec(LegacyPartLength) - 1) \div Sec(LegacyPartLength)
    IN [n \in 1..numParts |->
          LET partStart == startSec + (n - 1) * Sec(LegacyPartLength)
          IN [start |-> partStart,
              duration |-> IF partStart + Sec(LegacyPartLength) > endSec
                           THEN endSec - partStart
                           ELSE Sec(LegacyPartLength)]]

\* the ranges given to both splitters: a start on any tick up to MaxTime, a
\* length of up to a second or within a second of a whole number of parts
LegacyLengths ==
    (0..Res) \cup {k * Sec(LegacyPartLength) + d : k \in 1..MaxLegacyParts, d \in (0 - Res)..Res}
LegacyRanges ==
    {[start |-> a, end |-> a + len] : a \in 0..Sec(MaxTime), len \in LegacyLengths}

LegacyInit ==
    /\ BinariesPresent /\ InitAssembly
    /\ pc = "legacy"
    /\ highlightMode = FALSE /\ useAllVideo = FALSE /\ autoSplit = TRUE
    /\ segmentLength = Sec(LegacyPartLength)
    /\ highlightCount = DefaultHighlightCount
    /\ ranges \in {<<r>> : r \in LegacyRanges}
    /\ videoLength = Sec((MaxLegacyParts + 1) * LegacyPartLength)
    /\ durationLine = <<videoLength>>
    /\ rawTimestamps = <<>> /\ rawCuts = <<>>
    /\ highlights = <<>>
    /\ expandedRanges = <<>>
    /\ i = 1
    /\ submitted = <<>>
    /\ failed = {}
    /\ warned = {}
    /\ tempFileExists = TRUE
    /\ uniqueEffects = NoEffects

\* lines 1357-1360: the end is not after the start
LegacyExit ==
    /\ pc = "legacy"
    /\ ranges[1].end <= ranges[1].start
    /\ pc' = "exit"
    /\ UNCHANGED <<binaries, assembly, inputs, highlights, expandedRanges, i, submitted,
                   failed, warned, tempFileExists, uniqueEffects>>

\* lines 1362-1382: the parts the legacy loop cuts, one after the other
LegacySplit ==
    /\ pc = "legacy"
    /\ ranges[1].end > ranges[1].start
    /\ legacyParts' = legacyPartsOf(ranges[1].start, ranges[1].end)
    /\ pc' = "build"
    /\ UNCHANGED <<binaries, filterVars, clipVars, captionVars, inputs, highlights,
                   expandedRanges, i, submitted, failed, warned, tempFileExists,
                   uniqueEffects>>

\* the same range through the legacy splitter, then through the current
\* auto-split with a target of 60 seconds
LegacySpec == LegacyInit /\ [][LegacyExit \/ LegacySplit \/ BuildExplicit]_vars

(* ------------------------------ properties ------------------------------ *)
D == durationOf(durationLine)
Planned == pc \in {"render", "cleanup", "done"}
Finished == pc \in {"cleanup", "done"}
Valid(r) == r.end > r.start
SubmitCount(j) == Cardinality({k \in 1..Len(submitted) : submitted[k].index = j})
\* the ranges the plan is built from: the operator's, or the whole video
InputRanges == IF useAllVideo THEN <<[start |-> 0, end |-> D]>> ELSE ranges
StartsNonDecreasing(ws) == \A a, b \in 1..Len(ws) : a < b => ws[a].start <= ws[b].start
NoOverlap(ws) ==
    \A a, b \in 1..Len(ws) :
        a # b => (ws[a].end <= ws[b].start \/ ws[b].end <= ws[a].start)

\* C1: in the render loop every window with end > start is handed to the
\* transcoder exactly once and never again after a failure, whatever windows
\* failed before it, and the loop always reaches the step after it.
C1_RenderLoop ==
    /\ [](\A j \in 1..Len(expandedRanges) : SubmitCount(j) <= 1)
    /\ [](Finished =>
            \A j \in 1..Len(expandedRanges) :
                SubmitCount(j) = IF Valid(expandedRanges[j]) THEN 1 ELSE 0)
    /\ [](pc = "render" => <>(pc = "cleanup"))

C1_Witness ==
    /\ pc = "cleanup"
    /\ \E a \in failed : \E b \in 1..Len(expandedRanges) :
          a < b /\ b \notin failed /\ SubmitCount(a) = 1 /\ SubmitCount(b) = 1

\* C2: auto-split cuts every range [a,b) with b > a into consecutive windows
\* that start at a, each begin where the previous ends, end at b, have length
\* exactly the target except the last, whose length is in (0, target].
IsPartition(ws, a, b, T) ==
    /\ Len(ws) >= 1
    /\ ws[1].start = a
    /\ ws[Len(ws)].end = b
    /\ \A k \in 1..(Len(ws) - 1) :
          ws[k + 1].start = ws[k].end /\ ws[k].end - ws[k].start = T
    /\ ws[Len(ws)].end - ws[Len(ws)].start > 0
    /\ ws[Len(ws)].end - ws[Len(ws)].start <= T

RECURSIVE PartitionsAll(_, _, _)
PartitionsAll(ws, rs, T) ==
    IF rs = <<>> THEN ws = <<>>
    ELSE IF ~Valid(Head(rs)) THEN PartitionsAll(ws, Tail(rs), T)
    ELSE \E n \in 1..Len(ws) :
            /\ IsPartition(SubSeq(ws, 1, n), Head(rs).start, Head(rs).end, T)
            /\ PartitionsAll(SubSeq(ws, n + 1, Len(ws)), Tail(rs), T)

C2_AutoSplitPartitions ==
    (Planned /\ ~highlightMode /\ autoSplit)
        => PartitionsAll(expandedRanges, InputRanges, segmentLength)

C2_Witness ==
    /\ Planned /\ ~highlightMode /\ autoSplit
    /\ Len(expandedRanges) >= 3
    /\ \E k \in 1..Len(expandedRanges) :
          /\ expandedRanges[k].end - expandedRanges[k].start < segmentLength
          /\ k > 1 /\ expandedRanges[k].start = expandedRanges[k - 1].end

\* C3: no two windows returned by getBestMoments overlap.
C3_NoOverlap == NoOverlap(highlights)

C3_Witness ==
    /\ pc = "scored" /\ Len(highlights) >= 2
    /\ Len(highlights) < highlightCount
    /\ highlights[2].start < highlights[1].start
    /\ D >= (Len(highlights) + 1) * segmentLength

\* C4: every returned window has length exactly the span when the duration
\* is at least the span; otherwise the result is the single window [0, D];
\* no returned window ends after D.
C4_WindowLength ==
    \A k \in 1..Len(highlights) :
        /\ highlights[k].end <= D
        /\ IF D >= segmentLength
           THEN highlights[k].end - highlights[k].start = segmentLength
           ELSE Len(highlights) = 1 /\ highlights[k].start = 0 /\ highlights[k].end = D

C4_Witness ==
    /\ pc = "scored" /\ Len(highlights) >= 2
    /\ D % Res # 0
    /\ \E k \in 1..Len(highlights) : highlights[k].end + Res > D

C6_EmptyRangeWarned ==
    (Finished /\ ~highlightMode) =>
        \A k \in 1..Len(InputRanges) :
            ~Valid(InputRanges[k]) =>
                /\ \E j \in warned : expandedRanges[j] = InputRanges[k]
                /\ \A c \in 1..Len(submitted) :
                      ~(submitted[c].ss = InputRanges[k].start
                          /\ submitted[c].t = InputRanges[k].end - InputRanges[k].start)

\* C7: in whole-video and highlight mode, a duration that cannot be determined
\* aborts the run before any window is planned and before any render request.
C7_AbortWithoutDuration ==
    ((highlightMode \/ useAllVideo) /\ durationLine = <<>>) =>
        /\ pc \in {"start", "download-failed", "build", "exit"}
        /\ expandedRanges = <<>>
        /\ submitted = <<>>

\* C8: in highlight mode, when no highlight window can be selected, the plan
\* is exactly the one window [0, min(D, S)], D being the video's length.
C8_HighlightFallback ==
    (highlightMode /\ Planned /\ (highlights = <<>> \/ videoLength < segmentLength)) =>
        expandedRanges = <<[start |-> 0, end |-> Min(videoLength, segmentLength)]>>

\* C9 as stated: in every mode the plan is in non-decreasing order of start,
\* and in highlight mode no two planned windows overlap.
C9_PlanSorted ==
    Planned => /\ StartsNonDecreasing(expandedRanges)
               /\ highlightMode => NoOverlap(expandedRanges)

\* C9 amended: the plan is in non-decreasing start order in whole-video mode,
\* and in explicit mode when the operator's ranges are non-empty and each ends
\* no later than the next begins; in highlight mode the windows come in
\* selection order and no two overlap.
InputOrdered(rs) ==
    /\ \A k \in 1..Len(rs) : Valid(rs[k])
    /\ \A k \in 1..(Len(rs) - 1) : rs[k].end <= rs[k + 1].start

C9_PlanOrder ==
    Planned =>
        /\ useAllVideo => StartsNonDecreasing(expandedRanges)
        /\ (~highlightMode /\ ~useAllVideo /\ InputOrdered(ranges))
              => StartsNonDecreasing(expandedRanges)
        /\ highlightMode => NoOverlap(expandedRanges)

C9_Witness ==
    /\ Planned /\ highlightMode
    /\ Len(expandedRanges) >= 2
    /\ expandedRanges[2].start < expandedRanges[1].start

\* C10: every generated profile has its colour-balance multipliers within
\* [0.96, 1.04], rotationDeg in [0.1, 0.5], zoom in [1.01, 1.04], saturation in
\* [1.01, 1.06], contrast in [1.00, 1.04], gamma in [0.98, 1.04], pitchShift
\* in [0.98, 1.03], crf a whole number in 21..25, the logo margin in 8..15 and
\* preset one of fast, medium, for every outcome of the random source.
C10_EffectRanges ==
    pc = "generated" =>
        /\ uniqueEffects.colorTempR \in 9600..10400
        /\ uniqueEffects.colorTempG \in 9600..10400
        /\ uniqueEffects.colorTempB \in 9600..10400
        /\ uniqueEffects.rotationDeg \in 1000..5000
        /\ uniqueEffects.zoom \in 10100..10400
        /\ uniqueEffects.saturation \in 10100..10600
        /\ uniqueEffects.contrast \in 10000..10400
        /\ uniqueEffects.gamma \in 9800..10400
        /\ uniqueEffects.pitchShift \in 9800..10300
        /\ uniqueEffects.crf \in 21..25
        /\ uniqueEffects.logo.margin \in 8..15
        /\ uniqueEffects.preset \in {"fast", "medium"}

C10_Witness ==
    /\ pc = "generated"
    /\ uniqueEffects.crf = 25
    /\ uniqueEffects.logo.margin = 15
    /\ uniqueEffects.colorTempB = 10400
    /\ uniqueEffects.rotationDeg = 1000
    /\ uniqueEffects.preset = "medium"

\* C11: every generated profile has speed 1, so the video filter graph of a
\* rendered window holds no setpts stage and its audio filter chain holds one
\* atempo stage only, the one that compensates the pitch shift.
StageCount(chain, name) == Cardinality({k \in 1..Len(chain) : chain[k] = name})

C11_SpeedPinned ==
    pc = "filtered" =>
        /\ uniqueEffects.speed = Scale
        /\ StageCount(videoFilter, "setpts") = 0
        /\ StageCount(audioFilter, "atempo") = 1
        /\ audioFilter[Len(audioFilter)] = "atempo"
        /\ audioFilter[Len(audioFilter) - 1] = "aresample"

C11_Witness ==
    /\ pc = "filtered"
    /\ useBlurFill /\ hasLogoFile /\ hasWatermarkFile
    /\ uniqueEffects.pitchShift # Scale
    /\ uniqueEffects.logo.opacity < Scale
    /\ StageCount(videoFilter, "overlay") = 3
    /\ StageCount(videoFilter, "hflip") = 1

\* C12 as stated: for any duration D, span S <= D and count N >= 1, with one
\* timecode mention at second p and no scene cut, the first window returned
\* contains second p: start <= p < end.
SinglePeak ==
    /\ pc = "scored"
    /\ Len(rawTimestamps) = 1 /\ rawCuts = <<>>
    /\ Sec(rawTimestamps[1]) <= D
    /\ segmentLength <= D

TopContains(p) == highlights[1].start <= Sec(p) /\ Sec(p) < highlights[1].end

C12_TopContainsPeak == SinglePeak => TopContains(rawTimestamps[1])

\* C12 amended: the same, for a span longer than the 5 seconds a mention
\* weighs on either side and a mention at least one second before the end
\* of the video (p + 1 <= D).
C12_TopContainsPeakWideSpan ==
    (/\ SinglePeak
     /\ segmentLength > Sec(timestampWeightRadius)
     /\ Sec(rawTimestamps[1] + 1) <= D)
        => TopContains(rawTimestamps[1])

C12_Witness ==
    /\ SinglePeak
    /\ D = Sec(TestedPeak.duration) /\ segmentLength = Sec(TestedPeak.span)
    /\ rawTimestamps = <<TestedPeak.peak>>
    /\ Len(highlights) = 2
    /\ highlights[1].start = Sec(TestedPeak.peak + timestampWeightRadius + 1 - TestedPeak.span)
    /\ TopContains(TestedPeak.peak)

\* C14 as stated: with a running offset that starts at 0 and grows by
\* (window.end - window.start) after every window, captions or not, each
\* caption fully contained in a window is output as [sourceStart -
\* window.start + offset, sourceEnd - window.start + offset]; for windows
\* [10,20) then [50,55), [12,14,"hi"] is output as [2,4,"hi"] and
\* [51,53,"yo"] as [1,3,"yo"].
RECURSIVE LengthBefore(_, _)
LengthBefore(ws, k) ==
    IF k <= 1 THEN 0
    ELSE LengthBefore(ws, k - 1) + (ws[k - 1].end - ws[k - 1].start)

FullyInside(c, w) == c.sourceStart >= w.start /\ c.sourceEnd <= w.end

RetimedByRule ==
    /\ offset = LengthBefore(expandedRanges, i)
    /\ \A k \in 1..(i - 1) : \A n \in 1..Len(captions) :
          FullyInside(captions[n], expandedRanges[k]) =>
              \E m \in 1..Len(retimed) :
                  retimed[m] =
                      [clipLocalStart |-> captions[n].sourceStart - expandedRanges[k].start
                                              + LengthBefore(expandedRanges, k),
                       clipLocalEnd |-> captions[n].sourceEnd - expandedRanges[k].start
                                              + LengthBefore(expandedRanges, k),
                       text |-> captions[n].text]

TestedClipDone ==
    /\ pc \in {"clip with captions", "clip without captions"}
    /\ expandedRanges = TestedWindows /\ captions = TestedCaptions

C14_RetimedExample ==
    /\ RetimedByRule
    /\ TestedClipDone =>
          retimed = <<[clipLocalStart |-> Sec(2), clipLocalEnd |-> Sec(4), text |-> "hi"],
                      [clipLocalStart |-> Sec(1), clipLocalEnd |-> Sec(3), text |-> "yo"]>>

\* C14 amended: the same rule; in the example [51,53,"yo"] is 1 to 3 seconds
\* into its window and, with the offset 10 applied, is output as [11,13,"yo"].
C14_Retimed ==
    /\ RetimedByRule
    /\ TestedClipDone =>
          retimed = <<[clipLocalStart |-> Sec(2), clipLocalEnd |-> Sec(4), text |-> "hi"],
                      [clipLocalStart |-> Sec(11), clipLocalEnd |-> Sec(13), text |-> "yo"]>>

C14_Witness ==
    /\ pc = "clip with captions"
    /\ Len(expandedRanges) = 2 /\ Len(retimed) = 1
    /\ \A n \in 1..Len(captions) : ~FullyInside(captions[n], expandedRanges[1])
    /\ offset = LengthBefore(expandedRanges, 3)
    /\ retimed[1].clipLocalStart >= expandedRanges[1].end - expandedRanges[1].start
    /\ retimed[1].clipLocalStart > 0

\* C15: a caption that is not fully contained in one window of the clip
\* never appears in the re-timed list, neither whole nor as a part, and the
\* clip proceeds when the list ends up empty.
Straddles(c, w) ==
    /\ c.sourceStart < w.end /\ c.sourceEnd > w.start
    /\ ~FullyInside(c, w)

C15_StraddlersDropped ==
    /\ \A n \in 1..Len(captions) :
          (\A k \in 1..Len(expandedRanges) : ~FullyInside(captions[n], expandedRanges[k]))
              => \A m \in 1..Len(retimed) : retimed[m].text # captions[n].text
    /\ \A m \in 1..Len(retimed) : \E n \in 1..Len(captions) :
          /\ retimed[m].text = captions[n].text
          /\ retimed[m].clipLocalEnd - retimed[m].clipLocalStart
                = captions[n].sourceEnd - captions[n].sourceStart
    /\ (pc # "retime" /\ retimed = <<>>) => pc = "clip without captions"

C15_Witness ==
    /\ pc = "clip without captions"
    /\ Len(expandedRanges) = 2
    /\ \E n \in 1..Len(captions) :
          Straddles(captions[n], expandedRanges[1]) /\ Straddles(captions[n], expandedRanges[2])

\* C16: the clip assembled for a group holds exactly the windows of the group
\* whose render succeeded, in plan order, none twice; a group whose windows
\* all failed gets no clip artifact, and the groups after it are still assembled.
GroupSuccesses(q) ==
    {j \in {clipGroups[q][k] : k \in 1..Len(clipGroups[q])} :
        j \notin failed /\ SubmitCount(j) = 1}

ClipsOf(q) == {c \in 1..Len(clips) : clips[c].group = q}

C16_ClipHoldsSuccesses ==
    /\ pc # "exit"
    /\ \A c \in 1..Len(clips) : clips[c].group < g
    /\ \A c, d \in 1..Len(clips) : c < d => clips[c].group < clips[d].group
    /\ \A q \in 1..Len(clipGroups) :
          q < g =>
              IF GroupSuccesses(q) = {} THEN ClipsOf(q) = {}
              ELSE /\ Cardinality(ClipsOf(q)) = 1
                   /\ \A c \in ClipsOf(q) :
                         /\ {clips[c].windows[k] : k \in 1..Len(clips[c].windows)}
                               = GroupSuccesses(q)
                         /\ \A a, b \in 1..Len(clips[c].windows) :
                               a < b => clips[c].windows[a] < clips[c].windows[b]

C16_Witness ==
    /\ pc = "assembled"
    /\ Len(clipGroups) = 2 /\ Len(clipGroups[2]) = 2
    /\ GroupSuccesses(1) = {}
    /\ failed = {1, 2}
    /\ clips = <<[group |-> 2, windows |-> <<3>>]>>

\* C17: every clip the tool produces lasts at most one minute (60 seconds),
\* in every selection mode and for every answer to the prompts.
\* what the transcoder writes for -ss ss -t t: at most t, and no more than
\* the file holds after ss
ClipLength(c) == Min(c.t, Max(0, videoLength - c.ss))

C17_ClipAtMostOneMinute ==
    \A c \in 1..Len(submitted) : ClipLength(submitted[c]) <= Sec(OneMinute)

\* C18: when yt-dlp.exe or ffmpeg.exe is not in the program folder at
\* start-up, the program fetches it and goes on: past start-up both binaries
\* are in the folder, unless the download itself failed.
C18_MissingBinaryFetched ==
    pc \notin {"start", "download-failed"} => (ytDlpPresent /\ ffmpegPresent)

\* C19: for every candidate start s the candidate's score is the arithmetic
\* mean of score[i] = 3 * timestampSignal[i] + 1 * cutDensitySignal[i] over the
\* integer seconds i of [s, s + S), clipped to the last index of the signal:
\* the prefix-sum query gives the directly summed value.
RECURSIVE DirectSum(_, _, _)
DirectSum(f, lo, hi) == IF lo > hi THEN 0 ELSE f[lo] + DirectSum(f, lo + 1, hi)

SignalLength == MathCeil(D) + 1
KeptTimestamps == timestampSecondsOf(rawTimestamps, D)
KeptCuts == sceneCutsOf(rawCuts, D)
CombinedScore ==
    LET ts == tsPresence(KeptTimestamps, SignalLength)
        cd == cutDensity(KeptCuts, SignalLength)
    IN [k \in 0..(SignalLength - 1) |-> 3 * ts[k] + 1 * cd[k]]
Candidates ==
    windowScoresOf(D, segmentLength, scoresOf(KeptTimestamps, KeptCuts, SignalLength),
                   SignalLength)
LastSecond(s) == Min(SignalLength - 1, s + (segmentLength \div Res) - 1)

C19_WindowMean ==
    (pc = "scored" /\ D > 0) =>
        LET score == CombinedScore
            cands == Candidates
        IN /\ \A n \in 1..Len(cands) :
                 /\ cands[n].start = Sec(n - 1)
                 /\ cands[n].num = DirectSum(score, n - 1, LastSecond(n - 1))
                 /\ cands[n].den = LastSecond(n - 1) - (n - 1) + 1
           /\ \A k \in 1..Len(highlights) :
                 highlights[k].reason.kind # "fallback" =>
                     LET s == highlights[k].start \div Res
                     IN /\ highlights[k].num = DirectSum(score, s, LastSecond(s))
                        /\ highlights[k].den = LastSecond(s) - s + 1

C19_Witness ==
    /\ pc = "scored" /\ Len(highlights) >= 2
    /\ Len(KeptTimestamps) >= 1 /\ Len(KeptCuts) >= 1
    /\ highlights[1].den = 3 /\ highlights[1].num > highlights[2].num
    /\ highlights[2].num > 0

\* C20: the timestamp signal has length L = ceil(D) + 1 and its cell i holds
\* the number of parsed timecodes t <= D, counted with multiplicity, with
\* |i - t| <= 5; a timecode t > D adds nothing, no cell is negative and no
\* index outside 0..L-1 is written.
Distance(a, b) == IF a >= b THEN a - b ELSE b - a

TimestampSignal == tsPresence(KeptTimestamps, SignalLength)

C20_TimestampSignal ==
    (pc = "scored" /\ D > 0) =>
        LET signal == TimestampSignal
        IN /\ DOMAIN signal = 0..(MathCeil(D))
           /\ \A k \in DOMAIN signal :
                 /\ signal[k] >= 0
                 /\ signal[k] =
                       Cardinality({n \in 1..Len(rawTimestamps) :
                           /\ Sec(rawTimestamps[n]) <= D
                           /\ Distance(k, rawTimestamps[n]) <= 5})
           /\ \A k \in 1..Len(highlights) :
                 highlights[k].reason.kind = "counts" =>
                     highlights[k].reason.timestamps =
                         Cardinality({n \in 1..Len(rawTimestamps) :
                             /\ Sec(rawTimestamps[n]) <= D
                             /\ Sec(rawTimestamps[n]) >= highlights[k].start
                             /\ Sec(rawTimestamps[n]) <= highlights[k].end})

C20_Witness ==
    /\ pc = "scored"
    /\ Len(rawTimestamps) = 2 /\ Len(KeptTimestamps) = 1
    /\ \E k \in DOMAIN TimestampSignal : TimestampSignal[k] = 0
    /\ \E k \in DOMAIN TimestampSignal :
          TimestampSignal[k] = 1 /\ Distance(k, rawTimestamps[2]) <= 5
    /\ D % Res # 0

\* C21: the greedy selection is maximal.  When fewer than N windows are
\* returned, every candidate [s, s + S) overlaps at least one returned window;
\* and every returned window has a mean score at least that of every
\* candidate that overlaps none of the windows returned before it.
Intersects(a, b) == a.start < b.end /\ b.start < a.end

C21_GreedyMaximal ==
    (pc = "scored" /\ D > 0) =>
        LET cands == Candidates
        IN /\ Len(highlights) < highlightCount =>
                 \A n \in 1..Len(cands) :
                     \E k \in 1..Len(highlights) : Intersects(cands[n], highlights[k])
           /\ \A k \in 1..Len(highlights) : \A n \in 1..Len(cands) :
                 (\A j \in 1..(k - 1) : ~Intersects(cands[n], highlights[j]))
                     => ~ScoreLess(highlights[k], cands[n])

C21_Witness ==
    /\ pc = "scored" /\ D >= segmentLength
    /\ Len(highlights) = 2 /\ highlightCount = 3
    /\ ScoreLess(highlights[2], highlights[1])
    /\ \E n \in 1..Len(Candidates) :
          /\ Intersects(Candidates[n], highlights[1])
          /\ ScoreLess(highlights[2], Candidates[n])

\* C22: among candidates of equal score the one with the smaller start is
\* considered first.  The first returned window is the earliest-starting
\* candidate of maximal mean score, a returned window is preceded by every
\* equal-score candidate of smaller start that was free to be taken, and the
\* returned windows appear in non-increasing score order.
SameScore(a, b) == ~ScoreLess(a, b) /\ ~ScoreLess(b, a)

C22_TiesByStart ==
    (pc = "scored" /\ D > 0) =>
        LET cands == Candidates
        IN /\ Len(highlights) >= 1
           /\ \A n \in 1..Len(cands) :
                 /\ ~ScoreLess(highlights[1], cands[n])
                 /\ SameScore(cands[n], highlights[1])
                        => highlights[1].start <= cands[n].start
           /\ \A k \in 1..Len(highlights) : \A n \in 1..Len(cands) :
                 (SameScore(cands[n], highlights[k]) /\ cands[n].start < highlights[k].start)
                     => \E j \in 1..(k - 1) : Intersects(cands[n], highlights[j])
           /\ \A k \in 1..(Len(highlights) - 1) :
                 ~ScoreLess(highlights[k], highlights[k + 1])

C22_Witness ==
    /\ pc = "scored" /\ Len(highlights) = 3
    /\ highlights[1].num > 0
    /\ SameScore(highlights[1], highlights[2])
    /\ highlights[1].start < highlights[2].start
    /\ ScoreLess(highlights[3], highlights[2])
    /\ \E n \in 1..Len(Candidates) :
          /\ SameScore(Candidates[n], highlights[3])
          /\ Candidates[n].start < highlights[3].start

\* C23: a returned window carries the label "relative activity" exactly when
\* no timestamp mention and no scene cut contributed to its score, that is
\* when its mean score is 0.
C23_RelativeActivityIffZero ==
    (pc = "scored" /\ D > 0) =>
        \A k \in 1..Len(highlights) :
            (highlights[k].reason.kind = "relative activity") <=> (highlights[k].num = 0)

\* C23 as the code has it: the label is "relative activity" exactly when no
\* kept timestamp mention and no kept scene cut lies in the closed span
\* [start, start + S]; otherwise it reports the numbers of the mentions and
\* of the cuts that lie in that span, and the window's mean score is positive.
MentionsWithin(w) ==
    Cardinality({n \in 1..Len(KeptTimestamps) :
        /\ Sec(KeptTimestamps[n]) >= w.start
        /\ Sec(KeptTimestamps[n]) <= w.start + segmentLength})
CutsWithin(w) ==
    Cardinality({n \in 1..Len(KeptCuts) :
        KeptCuts[n] >= w.start /\ KeptCuts[n] <= w.start + segmentLength})

C23_LabelCountsWithinSpan ==
    (pc = "scored" /\ D > 0) =>
        \A k \in 1..Len(highlights) :
            LET w == highlights[k]
            IN /\ (w.reason.kind = "relative activity")
                      <=> (MentionsWithin(w) = 0 /\ CutsWithin(w) = 0)
               /\ w.reason.kind # "relative activity" =>
                      /\ w.reason.kind = "counts"
                      /\ w.reason.timestamps = MentionsWithin(w)
                      /\ w.reason.coupes = CutsWithin(w)
                      /\ w.num > 0

C23_Witness ==
    /\ pc = "scored" /\ Len(highlights) >= 2
    /\ highlights[1].reason.kind = "counts"
    /\ \E n \in 1..Len(KeptTimestamps) :
          Sec(KeptTimestamps[n]) = highlights[1].start + segmentLength
    /\ \E k \in 1..Len(highlights) :
          highlights[k].reason.kind = "relative activity" /\ highlights[k].num > 0

\* C24: the window list is completely built before the first render request
\* is issued, and no step of the render loop (or after it) adds, removes,
\* reorders or changes a window of it.
C24_PlanFrozen ==
    /\ [](submitted # <<>> => Planned)
    /\ [][Planned => expandedRanges' = expandedRanges]_vars

C24_Witness ==
    /\ pc = "done"
    /\ Len(expandedRanges) = 2
    /\ warned = {1} /\ failed = {2} /\ SubmitCount(2) = 1

\* C25: render requests are issued one at a time in plan index order: the
\* request for window j is issued only after every window i < j has been
\* attempted (its request completed or failed) or skipped, and carries that
\* window's place in the plan.
C25_InPlanOrder ==
    /\ \A c \in 1..Len(submitted) :
          /\ submitted[c].index \in 1..Len(expandedRanges)
          /\ submitted[c].index < i
          /\ Valid(expandedRanges[submitted[c].index])
          /\ submitted[c].ss = expandedRanges[submitted[c].index].start
          /\ \A a \in 1..(submitted[c].index - 1) :
                IF Valid(expandedRanges[a])
                THEN \E b \in 1..(c - 1) : submitted[b].index = a
                ELSE a \in warned
    /\ \A c, d \in 1..Len(submitted) :
          c < d => submitted[c].index < submitted[d].index
    /\ \A j \in failed : SubmitCount(j) = 1

C25_Witness ==
    /\ pc = "render" /\ Len(expandedRanges) >= 4
    /\ Len(submitted) = 3 /\ i = 4
    /\ failed = {2}

\* C26: every window for which a render request is submitted satisfies
\* 0 <= start < end, in every selection mode (explicit ranges parsed by
\* toSeconds, whole video, highlights, highlight fallback) and for every
\* numeric input; the request seeks to a non-negative time and asks for a
\* positive length.
C26_SubmittedWindowsValid ==
    \A c \in 1..Len(submitted) :
        LET w == expandedRanges[submitted[c].index]
        IN /\ 0 <= w.start /\ w.start < w.end
           /\ submitted[c].ss = w.start
           /\ submitted[c].t = w.end - w.start /\ submitted[c].t > 0

C26_Witness ==
    /\ pc = "done" /\ ~highlightMode /\ ~useAllVideo /\ ~autoSplit
    /\ Len(ranges) = 2 /\ ranges[1].end < ranges[1].start
    /\ warned = {1} /\ Len(submitted) = 1
    /\ submitted[1].ss > 0

\* C27: for each of the eight combinations of format (blur-fill or crop),
\* logo and watermark, the filter graph names an extra input pad [k:v], k >= 1,
\* only if the command supplies a k-th input: the watermark chain reads
\* input 1, the logo chain reads input 2 when both overlays are present and
\* input 1 when the logo is alone; and the graph is passed with
\* -filter_complex exactly when at least one overlay is present, with -vf
\* otherwise.
PadIndex(p) == IF p = "[1:v]" THEN 1 ELSE IF p = "[2:v]" THEN 2 ELSE 0
PadsUsed == {PadIndex(videoFilter[k]) : k \in 1..Len(videoFilter)} \ {0}
\* the command's inputs are numbered from 0: input k is ffmpegInputs[k + 1]
InputAt(k) == ffmpegInputs[k + 1]
\* the element after the k-th element of the graph is the given stage
ReadsBefore(k, stage) == k < Len(videoFilter) /\ videoFilter[k + 1] = stage

C27_PadsMatchInputs ==
    pc = "filtered" =>
        LET hasLogo == uniqueEffects.logo.enabled /\ hasLogoFile
            hasWatermark == hasWatermarkFile
        IN /\ \A k \in PadsUsed : k >= 1 /\ k + 1 <= Len(ffmpegInputs)
           /\ Cardinality(PadsUsed) = Len(ffmpegInputs) - 1
           /\ InputAt(0) = "tempFile"
           /\ hasWatermark =>
                 /\ InputAt(1) = "watermarkFile"
                 /\ \E k \in 1..Len(videoFilter) :
                       /\ videoFilter[k] = "[1:v]"
                       /\ ReadsBefore(k, "scale") /\ ReadsBefore(k + 1, "overlay")
           /\ (hasLogo /\ hasWatermark) =>
                 /\ InputAt(2) = "logoFile"
                 /\ PadsUsed = {1, 2}
                 /\ \E k \in 1..Len(videoFilter) :
                       /\ videoFilter[k] = "[2:v]"
                       /\ k > 1 /\ videoFilter[k - 1] = "overlay"
           /\ (hasLogo /\ ~hasWatermark) =>
                 /\ InputAt(1) = "logoFile"
                 /\ PadsUsed = {1}
           /\ (~hasLogo /\ ~hasWatermark) => PadsUsed = {}
           /\ filterFlag = IF hasLogo \/ hasWatermark THEN "-filter_complex" ELSE "-vf"

C27_Witness ==
    /\ pc = "filtered" /\ ~useBlurFill
    /\ hasLogoFile /\ ~hasWatermarkFile
    /\ ffmpegInputs = <<"tempFile", "logoFile">>
    /\ PadsUsed = {1}
    /\ filterFlag = "-filter_complex"

\* C28: no two windows of a run are rendered to the same output path, even
\* when their start and end times are identical.
C28_DistinctOutputs ==
    \A c, d \in 1..Len(submitted) : c # d => submitted[c].out # submitted[d].out

C28_Witness ==
    /\ pc = "cleanup" /\ Len(submitted) = 2
    /\ submitted[1].ss = submitted[2].ss /\ submitted[1].t = submitted[2].t
    /\ submitted[1].out[1] = 1 /\ submitted[2].out[1] = 2

\* C29: once the source video file is in place it is never deleted before
\* every planned window has been attempted: video_temp.mp4 can be deleted only
\* after the render loop has finished, in the step where the operator
\* answers the question about it, and it is never recreated.
C29_SourceKeptUntilLoopEnds ==
    /\ [](~tempFileExists =>
            /\ pc = "done" /\ i > Len(expandedRanges)
            /\ \A j \in 1..Len(expandedRanges) :
                  SubmitCount(j) = 1 \/ j \in warned)
    /\ [][tempFileExists' # tempFileExists =>
            (pc = "cleanup" /\ pc' = "done" /\ tempFileExists)]_vars

C29_Witness ==
    /\ pc = "done" /\ ~tempFileExists
    /\ Len(expandedRanges) >= 3
    /\ failed # {} /\ Len(submitted) = Len(expandedRanges)

\* C30: the legacy fixed-60-second splitter and the current auto-split loop
\* run with target length 60 produce the same ordered list of
\* (start, duration) windows for every range with end > start.
CurrentParts ==
    [k \in 1..Len(expandedRanges) |->
        [start |-> expandedRanges[k].start,
         duration |-> expandedRanges[k].end - expandedRanges[k].start]]

=============================================================================
